---- MODULE Spec2Model ----
(***************************************************************************)
(* A model of ntpdate: the NTP wire-format codec (src/src/ntp.rs) and the  *)
(* command-line run that resolves each server, sends one client query per  *)
(* address and decodes the reply (src/src/main.rs).                        *)
(*                                                                         *)
(* Two specifications share the module:                                    *)
(*   Spec       the run: async_main and access, one action per await       *)
(*              point or environment outcome;                              *)
(*   SpecCodec  the pure codec functions applied to bounded inputs.        *)
(***************************************************************************)
EXTENDS Integers, Sequences, FiniteSets, TLC

VARIABLES
    \* ---- the run (src/src/main.rs) ----
    version,      \* Args::version, a u8
    timeout,      \* Args::timeout in clock ticks; -1 stands for the values
                  \* Duration::from_secs_f64 panics on (negative, not finite)
    pc,           \* position of async_main / access
    todo,         \* servers the outer for loop has not taken yet
    lookups,      \* history: servers handed to lookup_host, in order
    resolved,     \* history: what lookup_host returned for the current server
    addrs,        \* the address iterator of the inner for loop
    attempted,    \* history: addresses access() was called with (this server)
    sockets,      \* UDP endpoints currently open
    sends,        \* history: datagrams sent by the current access() call
    sentDatagram, \* the last request datagram put on the wire
    timer,        \* ticks elapsed in the current timeout() future
    waited,       \* history: ticks elapsed since the request was sent
    spurious,     \* history: WouldBlock wakeups in the current access() call
    rxLen,        \* len returned by try_recv_buf, -1 before
    decodeLen,    \* history: length of the buffer given to from_buf, -1 if none
    lastOut,      \* the kind of the most recent console line
    netLog,       \* history: kinds of network action performed so far
    \* ---- the codec harness (src/src/ntp.rs) ----
    cin,          \* the input the codec function is applied to
    cout,         \* its result
    cpc           \* "init" before the application, "done" after

runVars == <<version, timeout, pc, todo, lookups, resolved, addrs, attempted,
             sockets, sends, sentDatagram, timer, waited, spurious, rxLen,
             decodeLen, lastOut, netLog>>
codecVars == <<cin, cout, cpc>>
vars == <<runVars, codecVars>>

----------------------------------------------------------------------------
(* Integer helpers: fixed-width arithmetic of u8 / u16 / u32.              *)

Pow2(n) == 2 ^ n

Min(a, b) == IF a < b THEN a ELSE b

RECURSIVE BitOr(_, _)
BitOr(a, b) ==
    IF a = 0 THEN b
    ELSE IF b = 0 THEN a
    ELSE (IF (a % 2 = 1) \/ (b % 2 = 1) THEN 1 ELSE 0)
         + 2 * BitOr(a \div 2, b \div 2)

RECURSIVE BitAnd(_, _)
BitAnd(a, b) ==
    IF a = 0 \/ b = 0 THEN 0
    ELSE (IF (a % 2 = 1) /\ (b % 2 = 1) THEN 1 ELSE 0)
         + 2 * BitAnd(a \div 2, b \div 2)

\* u8 << n and u8 >> n: bits shifted out are lost
Shl8(x, n) == (x * Pow2(n)) % 256
Shr8(x, n) == x \div Pow2(n)

----------------------------------------------------------------------------
(* bytes::Buf / bytes::BufMut as used by ntp.rs: big-endian reads at a     *)
(* cursor position (1-based) and appends.                                  *)

get_u8(buf, pos) == buf[pos]
get_i8(buf, pos) == IF buf[pos] >= 128 THEN buf[pos] - 256 ELSE buf[pos]
get_u16(buf, pos) == buf[pos] * 256 + buf[pos + 1]
\* A u32 does not fit TLC's 32-bit signed integers: it is kept as its
\* two 16-bit halves <<high, low>>, the value being high * 65536 + low.
get_u32(buf, pos) ==
    <<buf[pos] * 256 + buf[pos + 1], buf[pos + 2] * 256 + buf[pos + 3]>>

put_u8(x) == <<x>>
put_i8(x) == <<(x + 256) % 256>>
put_u16(x) == <<(x \div 256) % 256, x % 256>>
put_u32(x) ==
    <<(x[1] \div 256) % 256, x[1] % 256, (x[2] \div 256) % 256, x[2] % 256>>

\* ShortTime(u16, u16) and Timestamp(u32, u32) are pairs <<secs, frac>>
ShortTime_from_buf(buf, pos) == <<get_u16(buf, pos), get_u16(buf, pos + 2)>>
ShortTime_to_buf(t) == put_u16(t[1]) \o put_u16(t[2])
Timestamp_from_buf(buf, pos) == <<get_u32(buf, pos), get_u32(buf, pos + 4)>>
Timestamp_to_buf(t) == put_u32(t[1]) \o put_u32(t[2])

----------------------------------------------------------------------------
(* Leap and Mode                                                            *)

Leaps == {"NoWarning", "AddSecond", "DelSecond", "NotInSync"}
Modes == {"Unspecified", "Active", "Passive", "Client", "Server", "Broadcast"}

Ok(v) == [ok |-> TRUE, val |-> v]
Err(e) == [ok |-> FALSE, err |-> e]

Leap_try_from(value) ==
    CASE value = 0 -> Ok("NoWarning")
      [] value = 1 -> Ok("AddSecond")
      [] value = 2 -> Ok("DelSecond")
      [] value = 3 -> Ok("NotInSync")
      [] OTHER -> Err("illegal leap indicator value")

Leap_to_u8(value) ==
    CASE value = "NoWarning" -> 0
      [] value = "AddSecond" -> 1
      [] value = "DelSecond" -> 2
      [] value = "NotInSync" -> 3

Mode_try_from_lax(value) ==
    CASE value = 0 -> Ok("Unspecified")
      [] value = 1 -> Ok("Active")
      [] value = 2 -> Ok("Passive")
      [] value = 3 -> Ok("Client")
      [] value = 4 -> Ok("Server")
      [] OTHER -> Ok("Broadcast")

Mode_try_from(value) ==
    CASE value = 0 -> Ok("Unspecified")
      [] value = 1 -> Ok("Active")
      [] value = 2 -> Ok("Passive")
      [] value = 3 -> Ok("Client")
      [] value = 4 -> Ok("Server")
      [] value = 5 -> Ok("Broadcast")
      [] OTHER -> Err("illegal mode value")

Mode_to_u8(value) ==
    CASE value = "Unspecified" -> 0
      [] value = "Active" -> 1
      [] value = "Passive" -> 2
      [] value = "Client" -> 3
      [] value = "Server" -> 4
      [] value = "Broadcast" -> 5

----------------------------------------------------------------------------
(* Packet                                                                   *)

PACKET_LEN == 48
STRATUM_UNSYNC == 16

U32_ZERO == <<0, 0>>

\* #[derive(Default)]: every field zero
Packet_default ==
    [lvm |-> 0, stratum |-> 0, poll |-> 0, precision |-> 0,
     root_delay |-> <<0, 0>>, root_dispersion |-> <<0, 0>>,
     ref_id |-> <<0, 0, 0, 0>>,
     reference_time |-> <<U32_ZERO, U32_ZERO>>,
     origin_time |-> <<U32_ZERO, U32_ZERO>>,
     receive_time |-> <<U32_ZERO, U32_ZERO>>,
     transmit_time |-> <<U32_ZERO, U32_ZERO>>]

Packet_new_shift2(leap, ver, mode) ==
    [Packet_default EXCEPT
        !.lvm = BitOr(BitOr(Shl8(Leap_to_u8(leap), 6), Shl8(ver, 2)),
                      Mode_to_u8(mode)),
        !.stratum = STRATUM_UNSYNC]

Packet_new(leap, ver, mode) ==
    [Packet_default EXCEPT
        !.lvm = BitOr(BitOr(Shl8(Leap_to_u8(leap), 6), Shl8(ver, 3)),
                      Mode_to_u8(mode)),
        !.stratum = STRATUM_UNSYNC]

\* root_delay and root_dispersion read in the wrong order
from_buf_swapped(buf) ==
    [lvm |-> get_u8(buf, 1),
     stratum |-> get_u8(buf, 2),
     poll |-> get_i8(buf, 3),
     precision |-> get_i8(buf, 4),
     root_delay |-> ShortTime_from_buf(buf, 9),
     root_dispersion |-> ShortTime_from_buf(buf, 5),
     ref_id |-> <<buf[13], buf[14], buf[15], buf[16]>>,
     reference_time |-> Timestamp_from_buf(buf, 17),
     origin_time |-> Timestamp_from_buf(buf, 25),
     receive_time |-> Timestamp_from_buf(buf, 33),
     transmit_time |-> Timestamp_from_buf(buf, 41)]

\* The cursor starts at 1 and advances by the width of each field read.
from_buf(buf) ==
    LET p_lvm == 1
        p_stratum == p_lvm + 1
        p_poll == p_stratum + 1
        p_precision == p_poll + 1
        p_delay == p_precision + 1
        p_disp == p_delay + 4
        p_ref == p_disp + 4
        p_reftime == p_ref + 4
        p_origin == p_reftime + 8
        p_receive == p_origin + 8
        p_transmit == p_receive + 8
    IN  [lvm |-> get_u8(buf, p_lvm),
         stratum |-> get_u8(buf, p_stratum),
         poll |-> get_i8(buf, p_poll),
         precision |-> get_i8(buf, p_precision),
         root_delay |-> ShortTime_from_buf(buf, p_delay),
         root_dispersion |-> ShortTime_from_buf(buf, p_disp),
         ref_id |-> <<buf[p_ref], buf[p_ref + 1], buf[p_ref + 2], buf[p_ref + 3]>>,
         reference_time |-> Timestamp_from_buf(buf, p_reftime),
         origin_time |-> Timestamp_from_buf(buf, p_origin),
         receive_time |-> Timestamp_from_buf(buf, p_receive),
         transmit_time |-> Timestamp_from_buf(buf, p_transmit)]

to_buf(p) ==
    put_u8(p.lvm) \o put_u8(p.stratum) \o put_i8(p.poll) \o put_i8(p.precision)
    \o ShortTime_to_buf(p.root_delay) \o ShortTime_to_buf(p.root_dispersion)
    \o p.ref_id
    \o Timestamp_to_buf(p.reference_time) \o Timestamp_to_buf(p.origin_time)
    \o Timestamp_to_buf(p.receive_time) \o Timestamp_to_buf(p.transmit_time)

\* (Leap::try_from(lvm >> 6), lvm >> 3 & 7, Mode::try_from(lvm & 7)); the two
\* unwrap() calls panic on an Err.
leap_version_mode(p) ==
    LET l == Leap_try_from(Shr8(p.lvm, 6))
        m == Mode_try_from(BitAnd(p.lvm, 7))
    IN  IF l.ok /\ m.ok
        THEN [panic |-> FALSE, leap |-> l.val,
              version |-> BitAnd(Shr8(p.lvm, 3), 7), mode |-> m.val]
        ELSE [panic |-> TRUE]

----------------------------------------------------------------------------
(* The codec harness: one codec function applied to one bounded input.     *)

U8Samples == {0, 227, 255}
StratumSamples == {1, 16}
PollSamples == {-128, 6, 127}
PrecisionSamples == {-20, 0}
ShortTimeSamples == {<<1, 32768>>, <<65535, 256>>}
RefIdSamples == {<<76, 79, 67, 76>>, <<192, 0, 2, 1>>}
\* <<1, 0x80000000>> and <<0xFFFFFFFF, 0x01000002>>, each u32 as two halves
TimestampSamples ==
    {<< <<0, 1>>, <<32768, 0>> >>, << <<65535, 65535>>, <<256, 2>> >>}

PacketSamples ==
    [lvm : U8Samples, stratum : StratumSamples, poll : PollSamples,
     precision : PrecisionSamples,
     root_delay : ShortTimeSamples, root_dispersion : ShortTimeSamples,
     ref_id : RefIdSamples,
     reference_time : TimestampSamples, origin_time : TimestampSamples,
     receive_time : TimestampSamples, transmit_time : TimestampSamples]

U8 == 0..255
VersionBits == 0..7

CodecInputs ==
    [kind : {"packet"}, p : PacketSamples]
    \cup [kind : {"u8"}, v : U8]
    \cup [kind : {"new"}, leap : Leaps, ver : VersionBits, mode : Modes]

\* to_buf into an empty BytesMut
CodecEncode ==
    /\ cpc = "init" /\ cin.kind = "packet"
    /\ cout' = [wire |-> to_buf(cin.p)]
    /\ cpc' = "encoded"
    /\ UNCHANGED <<cin, runVars>>

\* from_buf over the bytes to_buf produced
CodecDecode ==
    /\ cpc = "encoded"
    /\ cout' = [wire |-> cout.wire, p |-> from_buf(cout.wire)]
    /\ cpc' = "done"
    /\ UNCHANGED <<cin, runVars>>

\* Leap::try_from / Mode::try_from, and u8::from on each Ok value
CodecEnum ==
    /\ cpc = "init" /\ cin.kind = "u8"
    /\ LET l == Leap_try_from(cin.v)
           m == Mode_try_from(cin.v)
       IN  cout' = [leap |-> l, mode |-> m,
                    leap_u8 |-> IF l.ok THEN Leap_to_u8(l.val) ELSE -1,
                    mode_u8 |-> IF m.ok THEN Mode_to_u8(m.val) ELSE -1]
    /\ cpc' = "done"
    /\ UNCHANGED <<cin, runVars>>

CodecNew ==
    /\ cpc = "init" /\ cin.kind = "new"
    /\ cout' = [p |-> Packet_new(cin.leap, cin.ver, cin.mode)]
    /\ cpc' = "done"
    /\ UNCHANGED <<cin, runVars>>

----------------------------------------------------------------------------
(* The run: async_main and access.                                         *)

NumServers == 2
MaxAddrs == 2
MaxSpurious == 2
MaxTimeout == 1

RECV_CAP == 1024
REQUEST_VERSION == 4

CmdLine == [i \in 1..NumServers |-> i]

VersionInputs == U8
TimeoutInputs == {-1, 0, MaxTimeout}

Addrs == 1..MaxAddrs
is_ipv4(a) == a % 2 = 1

\* what lookup_host can yield on success: any list of distinct addresses
ResolverResults ==
    {r \in UNION {[1..n -> Addrs] : n \in 0..MaxAddrs} :
        \A i, j \in DOMAIN r : i # j => r[i] # r[j]}

\* datagrams a server can answer with: the lengths around 48, any first byte
ReplyLens == {0, 1, PACKET_LEN - 1, PACKET_LEN, PACKET_LEN + 1}
Replies == {[i \in 1..n |-> IF i = 1 THEN b ELSE 0] : n \in ReplyLens, b \in U8}

ValidVersion_from0(v) == v \in 0..4

\* (1..=4).contains(&args.version)
ValidVersion(v) == v \in 1..4

TooShort_off_by_one(len) == len < PACKET_LEN - 1

\* len < 48
TooShort(len) == len < PACKET_LEN

\* the request of access(): Packet::new(Leap::NotInSync, 4, Mode::Client)
Request == to_buf(Packet_new("NotInSync", REQUEST_VERSION, "Client"))

Line(k, m) == [kind |-> k, msg |-> m]
ErrorLine(m) == Line("error", m)

CurAddr == attempted[Len(attempted)]

argVars == <<version, timeout>>
loopVars == <<todo, lookups, resolved, addrs, attempted>>
waitVars == <<timer, waited, spurious>>
recvVars == <<rxLen, decodeLen>>

\* access() returns Err(e): the socket and the locals are dropped, the caller
\* prints the error and the inner loop goes on
AccessFails(m) ==
    /\ pc' = "addrs"
    /\ lastOut' = ErrorLine(m)
    /\ sockets' = {}
    /\ timer' = 0 /\ waited' = 0 /\ spurious' = 0

\* a panic unwinds access() and async_main(): the socket is dropped and the
\* process ends with nothing more printed
Panics ==
    /\ pc' = "panicked"
    /\ sockets' = {}
    /\ timer' = 0 /\ waited' = 0 /\ spurious' = 0
    /\ UNCHANGED lastOut

CheckVersion ==
    /\ pc = "start"
    /\ IF ValidVersion(version)
       THEN pc' = "servers" /\ UNCHANGED lastOut
       ELSE pc' = "aborted" /\ lastOut' = Line("fatal", "illegal NTP version")
    /\ UNCHANGED <<argVars, loopVars, sockets, sends, sentDatagram, waitVars,
                   recvVars, netLog, codecVars>>

LookupErr ==
    /\ pc = "servers" /\ todo # <<>>
    /\ todo' = Tail(todo)
    /\ lookups' = Append(lookups, Head(todo))
    /\ netLog' = netLog \cup {"resolve"}
    /\ resolved' = <<>> /\ addrs' = <<>> /\ attempted' = <<>>
    /\ lastOut' = Line("resolve_error", Head(todo))
    /\ pc' = "servers"
    /\ UNCHANGED <<argVars, sockets, sends, sentDatagram, waitVars, recvVars,
                   codecVars>>

LookupOk ==
    /\ pc = "servers" /\ todo # <<>>
    /\ todo' = Tail(todo)
    /\ lookups' = Append(lookups, Head(todo))
    /\ netLog' = netLog \cup {"resolve"}
    /\ \E r \in ResolverResults : resolved' = r /\ addrs' = r
    /\ attempted' = <<>>
    /\ lastOut' = Line("server", Head(todo))
    /\ pc' = "addrs"
    /\ UNCHANGED <<argVars, sockets, sends, sentDatagram, waitVars, recvVars,
                   codecVars>>

Finish ==
    /\ pc = "servers" /\ todo = <<>>
    /\ pc' = "done"
    /\ UNCHANGED <<argVars, loopVars, sockets, sends, sentDatagram, waitVars,
                   recvVars, lastOut, netLog, codecVars>>

AddrsExhausted ==
    /\ pc = "addrs" /\ addrs = <<>>
    /\ pc' = "servers"
    /\ sends' = 0 /\ rxLen' = -1 /\ decodeLen' = -1
    /\ UNCHANGED <<argVars, loopVars, sockets, sentDatagram, waitVars,
                   lastOut, netLog, codecVars>>

\* the inner loop takes the next address, prints it and calls access(), which
\* builds the request and runs up to its first await
NextAddr ==
    /\ pc = "addrs" /\ addrs # <<>>
    /\ addrs' = Tail(addrs)
    /\ attempted' = Append(attempted, Head(addrs))
    /\ lastOut' = Line("addr", Head(addrs))
    /\ sends' = 0 /\ rxLen' = -1 /\ decodeLen' = -1
    /\ pc' = "bind"
    /\ UNCHANGED <<argVars, todo, lookups, resolved, sockets, sentDatagram,
                   waitVars, netLog, codecVars>>

BindOk ==
    /\ pc = "bind"
    /\ sockets' = sockets \cup
          {[local |-> IF is_ipv4(CurAddr) THEN "0.0.0.0:0" ELSE "[::]:0",
            peer |-> 0]}
    /\ netLog' = netLog \cup {"bind"}
    /\ pc' = "connect"
    /\ UNCHANGED <<argVars, loopVars, sends, sentDatagram, waitVars, recvVars,
                   lastOut, codecVars>>

BindErr ==
    /\ pc = "bind"
    /\ netLog' = netLog \cup {"bind"}
    /\ AccessFails("io error")
    /\ UNCHANGED <<argVars, loopVars, sends, sentDatagram, recvVars, codecVars>>

ConnectOk ==
    /\ pc = "connect"
    /\ sockets' = {[s EXCEPT !.peer = CurAddr] : s \in sockets}
    /\ netLog' = netLog \cup {"connect"}
    /\ pc' = "send"
    /\ UNCHANGED <<argVars, loopVars, sends, sentDatagram, waitVars, recvVars,
                   lastOut, codecVars>>

ConnectErr ==
    /\ pc = "connect"
    /\ netLog' = netLog \cup {"connect"}
    /\ AccessFails("io error")
    /\ UNCHANGED <<argVars, loopVars, sends, sentDatagram, recvVars, codecVars>>

\* socket.send returned Ok(48); the loop is entered and Duration::from_secs_f64
\* panics on a negative or non-finite timeout
SendOk ==
    /\ pc = "send"
    /\ sends' = sends + 1
    /\ sentDatagram' = Request
    /\ netLog' = netLog \cup {"send"}
    /\ IF timeout < 0
       THEN Panics
       ELSE /\ pc' = "wait"
            /\ timer' = 0 /\ waited' = 0
            /\ UNCHANGED <<sockets, spurious, lastOut>>
    /\ UNCHANGED <<argVars, loopVars, recvVars, codecVars>>

\* socket.send returned Ok(n) with n # req.len()
SendShort ==
    /\ pc = "send"
    /\ \E n \in {0, Len(Request) - 1} :
          sentDatagram' = SubSeq(Request, 1, n)
    /\ sends' = sends + 1
    /\ netLog' = netLog \cup {"send"}
    /\ AccessFails("failed to send request")
    /\ UNCHANGED <<argVars, loopVars, recvVars, codecVars>>

SendErr ==
    /\ pc = "send"
    /\ netLog' = netLog \cup {"send"}
    /\ AccessFails("io error")
    /\ UNCHANGED <<argVars, loopVars, sends, sentDatagram, recvVars, codecVars>>

\* time passes while timeout(.., socket.readable()) is pending
Tick ==
    /\ pc = "wait" /\ timer < timeout
    /\ timer' = timer + 1
    /\ waited' = waited + 1
    /\ UNCHANGED <<argVars, loopVars, pc, sockets, sends, sentDatagram,
                   spurious, recvVars, lastOut, netLog, codecVars>>

\* the timeout future resolves to Err(Elapsed)
TimeoutElapsed ==
    /\ pc = "wait" /\ timer >= timeout
    /\ AccessFails("deadline has elapsed")
    /\ UNCHANGED <<argVars, loopVars, sends, sentDatagram, recvVars, netLog,
                   codecVars>>

RecvWouldBlock_resend ==
    /\ pc = "wait" /\ spurious < MaxSpurious
    /\ spurious' = spurious + 1
    /\ timer' = 0
    /\ pc' = "send"
    /\ UNCHANGED <<argVars, loopVars, sockets, sends, sentDatagram, waited,
                   recvVars, lastOut, netLog, codecVars>>

\* readable() resolved but try_recv_buf reports WouldBlock: `continue` builds a
\* new timeout future around a new readable()
RecvWouldBlock ==
    /\ pc = "wait" /\ spurious < MaxSpurious
    /\ spurious' = spurious + 1
    /\ timer' = 0
    /\ UNCHANGED <<argVars, loopVars, pc, sockets, sends, sentDatagram, waited,
                   recvVars, lastOut, netLog, codecVars>>

\* readable() or try_recv_buf fails with another io error
RecvErr ==
    /\ pc = "wait"
    /\ AccessFails("io error")
    /\ UNCHANGED <<argVars, loopVars, sends, sentDatagram, recvVars, netLog,
                   codecVars>>

\* What access() does with a datagram once try_recv_buf returns Ok(len): the
\* length check, from_buf (whose reads panic past the end of the buffer),
\* leap_version_mode and the printing. No await follows the receive.
access_after_recv(dgram) ==
    LET buf == SubSeq(dgram, 1, Min(Len(dgram), RECV_CAP))
        len == Len(buf)
    IN  IF TooShort(len)
        THEN [rxLen |-> len, decodeLen |-> -1, end |-> "too_short"]
        ELSE IF len < PACKET_LEN
        THEN [rxLen |-> len, decodeLen |-> len, end |-> "panic"]
        ELSE IF leap_version_mode(from_buf(buf)).panic
        THEN [rxLen |-> len, decodeLen |-> len, end |-> "panic"]
        ELSE [rxLen |-> len, decodeLen |-> len, end |-> "decoded"]

\* the distinct ways a reply can end the exchange
ReplyOutcomes == {access_after_recv(d) : d \in Replies}

\* try_recv_buf returns Ok(len) for some datagram the server sent
RecvReply ==
    /\ pc = "wait"
    /\ \E r \in ReplyOutcomes :
          /\ rxLen' = r.rxLen
          /\ decodeLen' = r.decodeLen
          /\ CASE r.end = "too_short" -> AccessFails("response too short")
               [] r.end = "panic" -> Panics
               [] r.end = "decoded" ->
                     /\ pc' = "addrs"
                     /\ lastOut' = Line("decoded", "packet fields")
                     /\ sockets' = {}
                     /\ timer' = 0 /\ waited' = 0 /\ spurious' = 0
    /\ UNCHANGED <<argVars, loopVars, sends, sentDatagram, netLog, codecVars>>

----------------------------------------------------------------------------
(* Specifications                                                           *)

CodecIdle == cin = [kind |-> "none"] /\ cout = [kind |-> "none"] /\ cpc = "idle"

RunInit ==
    /\ pc = "start"
    /\ todo = CmdLine
    /\ lookups = <<>> /\ resolved = <<>> /\ addrs = <<>> /\ attempted = <<>>
    /\ sockets = {}
    /\ sends = 0 /\ sentDatagram = <<>>
    /\ timer = 0 /\ waited = 0 /\ spurious = 0
    /\ rxLen = -1 /\ decodeLen = -1
    /\ lastOut = Line("none", "")
    /\ netLog = {}

Init ==
    /\ version \in VersionInputs
    /\ timeout \in TimeoutInputs
    /\ RunInit
    /\ CodecIdle

Next ==
    \/ CheckVersion
    \/ LookupErr
    \/ LookupOk
    \/ Finish
    \/ AddrsExhausted
    \/ NextAddr
    \/ BindOk
    \/ BindErr
    \/ ConnectOk
    \/ ConnectErr
    \/ SendOk
    \/ SendShort
    \/ SendErr
    \/ Tick
    \/ TimeoutElapsed
    \/ RecvWouldBlock
    \/ RecvErr
    \/ RecvReply

Spec == Init /\ [][Next]_vars

CodecInit ==
    /\ cin \in CodecInputs
    /\ cout = [kind |-> "none"]
    /\ cpc = "init"
    /\ version = REQUEST_VERSION
    /\ timeout = 0
    /\ RunInit

CodecNext ==
    \/ CodecEncode
    \/ CodecDecode
    \/ CodecEnum
    \/ CodecNew

SpecCodec == CodecInit /\ [][CodecNext]_vars

----------------------------------------------------------------------------
(* Properties                                                               *)

PacketFields ==
    {"lvm", "stratum", "poll", "precision", "root_delay", "root_dispersion",
     "ref_id", "reference_time", "origin_time", "receive_time", "transmit_time"}

InExchange == pc \in {"connect", "send", "wait"}

\* C1: whatever datagram a server replies with, the exchange ends in printed
\* output or a printed error and the run goes on: once access() has received
\* a reply, the run is never ended by a panic.
C1_ReplyNeverEndsRun ==
    rxLen >= 0 =>
        /\ pc # "panicked"
        /\ lastOut.kind \in {"decoded", "error"}

\* C2: every request datagram put on the wire carries the user-supplied
\* version in bits 5-3 of its first byte, with Leap = NotInSync (3) in bits
\* 7-6 and Mode = Client (3) in bits 2-0.
C2_RequestCarriesUserVersion ==
    Len(sentDatagram) > 0 =>
        /\ BitAnd(Shr8(sentDatagram[1], 3), 7) = version
        /\ Shr8(sentDatagram[1], 6) = 3
        /\ BitAnd(sentDatagram[1], 7) = 3

\* C3: spurious wakeups do not extend the wait: while access() is still
\* waiting for a reply, no more than the one caller-supplied timeout has
\* elapsed since the request was sent.
C3_WaitBoundedByTimeout == pc = "wait" => waited <= timeout

\* C4: a received datagram of fewer than 48 bytes ends the exchange with the
\* "response too short" error and the inner loop goes on to the next address;
\* from_buf is never given a buffer of fewer than 48 bytes.
C4_ShortReplyRejected ==
    /\ (rxLen >= 0 /\ rxLen < PACKET_LEN) =>
          /\ pc = "addrs"
          /\ lastOut = ErrorLine("response too short")
          /\ decodeLen = -1
    /\ decodeLen # -1 => decodeLen >= PACKET_LEN

C4_Witness ==
    /\ rxLen = PACKET_LEN - 1
    /\ pc = "addrs"
    /\ lastOut = ErrorLine("response too short")
    /\ addrs # <<>>

\* C5: in a run whose version is outside 1..4 no resolver call, bind, connect
\* or send ever happens: the run is still at its start or has aborted.
C5_NoNetworkOnIllegalVersion ==
    version \notin 1..4 =>
        /\ netLog = {}
        /\ sockets = {}
        /\ lookups = <<>>
        /\ Len(sentDatagram) = 0
        /\ pc \in {"start", "aborted"}

C5_Witness ==
    /\ pc = "aborted"
    /\ version = 0
    /\ lastOut.kind = "fatal"

\* C6: a resolution failure is reported for the server just looked up;
\* servers are looked up in command-line order and, whatever the resolver
\* returned for the servers before, every server of the command line has been
\* looked up when a run with a legal version ends.
C6_EveryServerProcessed ==
    /\ lastOut.kind = "resolve_error" => lastOut.msg = lookups[Len(lookups)]
    /\ lookups \o todo = CmdLine
    /\ pc \in {"done", "panicked"} => lookups = CmdLine

\* C7: decoding with from_buf the bytes to_buf produced for a packet yields
\* that packet again, field for field.
C7_RoundTrip ==
    (cpc = "done" /\ cin.kind = "packet") =>
        /\ DOMAIN cout.p = PacketFields
        /\ \A f \in PacketFields : cout.p[f] = cin.p[f]

C7_Witness ==
    /\ cpc = "done" /\ cin.kind = "packet"
    /\ cin.p.poll < 0
    /\ cin.p.root_delay # cin.p.root_dispersion
    /\ cin.p.reference_time # cin.p.transmit_time
    /\ Len(cout.wire) = PACKET_LEN

\* C8: for every u8 v, Leap::try_from succeeds iff v is in 0..3 and
\* Mode::try_from succeeds iff v is in 0..5, each failing with its
\* illegal-value error otherwise; and converting the decoded variant back to
\* u8 gives v.
C8_EnumDecodeTotal ==
    (cpc = "done" /\ cin.kind = "u8") =>
        /\ cout.leap.ok <=> cin.v \in 0..3
        /\ cout.mode.ok <=> cin.v \in 0..5
        /\ ~cout.leap.ok => cout.leap.err = "illegal leap indicator value"
        /\ ~cout.mode.ok => cout.mode.err = "illegal mode value"
        /\ cout.leap.ok => cout.leap.val \in Leaps /\ cout.leap_u8 = cin.v
        /\ cout.mode.ok => cout.mode.val \in Modes /\ cout.mode_u8 = cin.v

C8_Witness ==
    /\ cpc = "done" /\ cin.kind = "u8"
    /\ cin.v = 5
    /\ ~cout.leap.ok
    /\ cout.mode.ok /\ cout.mode_u8 = 5

\* C9: Packet::new(l, v, m) with v in 0..7 has lvm = l * 64 + v * 8 + m (0xE3
\* for NotInSync, 4, Client), stratum 16 and every other field zero.
C9_NewPacket ==
    (cpc = "done" /\ cin.kind = "new") =>
        /\ cout.p.lvm =
              Leap_to_u8(cin.leap) * 64 + cin.ver * 8 + Mode_to_u8(cin.mode)
        /\ (cin.leap = "NotInSync" /\ cin.ver = 4 /\ cin.mode = "Client")
              => cout.p.lvm = 227
        /\ cout.p.stratum = 16
        /\ cout.p.poll = 0 /\ cout.p.precision = 0
        /\ cout.p.root_delay = <<0, 0>> /\ cout.p.root_dispersion = <<0, 0>>
        /\ cout.p.ref_id = <<0, 0, 0, 0>>
        /\ \A f \in {"reference_time", "origin_time", "receive_time",
                     "transmit_time"} : cout.p[f] = << <<0, 0>>, <<0, 0>> >>

C9_Witness ==
    /\ cpc = "done" /\ cin.kind = "new"
    /\ cin.leap = "NotInSync" /\ cin.ver = 4 /\ cin.mode = "Client"
    /\ cout.p.lvm = 227

====
